---- MODULE Spec2Model ----
(***************************************************************************)
(* Model of selene_sdk/predict/model_predict.py: the window geometry of    *)
(* AnalyzeSequences, the variant window resolver (_process_alts), the      *)
(* reference consistency check (_handle_standard_ref / _handle_long_ref),  *)
(* the in-silico mutagenesis enumerator and mutate_sequence, and the        *)
(* drivers that batch encodings, call predict and feed the reporters       *)
(* (_initialize_reporters, variant_effect_prediction,                      *)
(* get_predictions_for_fasta_file, in_silico_mutagenesis).                 *)
(*                                                                         *)
(* A str is a sequence of one-character strings, a one-hot encoding is a   *)
(* sequence of rows, a row is a tuple with one entry per alphabet base.    *)
(* Coordinates handed to the reference sequence are 0-based, half-open.    *)
(***************************************************************************)
EXTENDS Integers, Sequences, FiniteSets, TLC

VARIABLES sequence_length, start_radius, end_radius,
          task, pc,
          variant, vep,
          ism_sequence, mutate_n_bases, all_mutated_sequences,
          encoding, mutation_information, mutated,
          batch_size, write_mem_limit, save_data, mode, reporters,
          variants, idx, batch_ref_seqs, batch_alt_seqs, batch_ids, calls,
          fasta_file, sequences

\* the state of the drivers: configuration, reporters, loop locals and the
\* calls made so far to predict and to the reporters
driverVars == <<batch_size, write_mem_limit, save_data, mode, reporters,
                variants, idx, batch_ref_seqs, batch_alt_seqs, batch_ids,
                calls, fasta_file, sequences>>

vars == <<sequence_length, start_radius, end_radius, task, pc, variant, vep,
          ism_sequence, mutate_n_bases, all_mutated_sequences,
          encoding, mutation_information, mutated,
          batch_size, write_mem_limit, save_data, mode, reporters,
          variants, idx, batch_ref_seqs, batch_alt_seqs, batch_ids, calls,
          fasta_file, sequences>>

(* ------------------------------ bounds --------------------------------- *)
MaxSeqLen == 4
ChromLen == 6
MaxRefLen == 3
MaxAltStrLen == 3
MaxIsmLen == 3
MaxK == 4
MaxEncLen == 2
MaxMutations == 2
MaxSaveData == 3
MaxMemLimit == 5
MaxVariants == 2
MaxBatchSize == 3
MaxDriverK == 2
MaxDriverLen == 2
MaxRecords == 2
MaxFastaRecords == 4

(* ------------------------- generic helpers ----------------------------- *)
Min(a, b) == IF a < b THEN a ELSE b
Max(a, b) == IF a > b THEN a ELSE b

\* all sequences over S of length n, and of length 0..n
SeqsOfLen(S, n) == [1..n -> S]
SeqsUpTo(S, n) == UNION {SeqsOfLen(S, m) : m \in 0..n}

\* Python slice index normalisation: negative counts from the end, clamped
PyIndex(i, n) == IF i < 0 THEN Max(i + n, 0) ELSE Min(i, n)

\* Python s[a:b] on a 0-based sequence
PySlice(s, a, b) ==
    LET lo == PyIndex(a, Len(s))
        hi == PyIndex(b, Len(s))
    IN  IF lo >= hi THEN <<>> ELSE SubSeq(s, lo + 1, hi)

\* Python s[:b] and s[a:]
PyPrefix(s, b) == PySlice(s, 0, b)
PySuffix(s, a) == PySlice(s, a, Len(s))

\* math.ceil(n / 2) for a non-negative integer n
CeilHalf(n) == (n + 1) \div 2

(* ------------------- the reference sequence (Genome) ------------------- *)
BASES_ARR == <<"A", "C", "G", "T">>
UNK_BASE == "N"
AlphabetSize == Len(BASES_ARR)

\* BASE_TO_INDEX: 1-based column of a base
BASE_TO_INDEX == [b \in {BASES_ARR[j] : j \in 1..AlphabetSize} |->
                    CHOOSE j \in 1..AlphabetSize : BASES_ARR[j] = b]

\* one row of an encoding; a symbol outside the alphabet is the unknown row
EncodeBase(b) == [j \in 1..AlphabetSize |-> IF BASES_ARR[j] = b THEN 1 ELSE 0]
sequence_to_encoding(s) == [i \in 1..Len(s) |-> EncodeBase(s[i])]

RowOnes(row) == {j \in 1..AlphabetSize : row[j] = 1}
IsOneHotRow(row) ==
    /\ Cardinality(RowOnes(row)) = 1
    /\ \A j \in 1..AlphabetSize : row[j] \in {0, 1}
DecodeRow(row) ==
    IF IsOneHotRow(row) THEN BASES_ARR[CHOOSE j \in RowOnes(row) : TRUE]
    ELSE UNK_BASE
encoding_to_sequence(e) == [i \in 1..Len(e) |-> DecodeRow(e[i])]

\* the genome: one chromosome, chr1, of ChromLen bases
GenomePattern == <<"A", "C", "C", "A", "N", "C", "G", "T">>
Chr1 == [i \in 1..ChromLen |-> GenomePattern[((i - 1) % Len(GenomePattern)) + 1]]
len_chrs == [c \in {"chr1"} |-> ChromLen]

coords_in_bounds(chrom, start, end) ==
    /\ chrom \in DOMAIN len_chrs
    /\ start >= 0
    /\ start < len_chrs[chrom]
    /\ end <= len_chrs[chrom]
    /\ start < end

Repeat(x, n) == [i \in 1..Max(n, 0) |-> x]

\* fetch [start, end); out of bounds gives the empty string unless pad
get_sequence_from_coords(chrom, start, end, pad) ==
    IF chrom \notin DOMAIN len_chrs \/ start >= end THEN <<>>
    ELSE IF ~pad /\ (start < 0 \/ end > len_chrs[chrom]) THEN <<>>
    ELSE LET lo == Max(start, 0)
             hi == Min(end, len_chrs[chrom])
         IN  Repeat(UNK_BASE, Min(end, 0) - start)
             \o (IF lo >= hi THEN <<>> ELSE SubSeq(Chr1, lo + 1, hi))
             \o Repeat(UNK_BASE, end - Max(start, len_chrs[chrom]))

get_encoding_from_coords(chrom, start, end) ==
    sequence_to_encoding(get_sequence_from_coords(chrom, start, end, FALSE))

(* --------------------------- window geometry --------------------------- *)
StartRadius(L) == L \div 2
\* the radius of an odd length without its extra base on the right
EndRadiusEven(L) == StartRadius(L)

EndRadius(L) == IF L % 2 # 0 THEN StartRadius(L) + 1 ELSE StartRadius(L)

(* ------------------------ variants (VCF records) ----------------------- *)
\* alt.split(','): the comma-separated alternates, in order
RECURSIVE SplitFrom(_, _, _)
SplitFrom(s, i, cur) ==
    IF i > Len(s) THEN <<cur>>
    ELSE IF s[i] = "," THEN <<cur>> \o SplitFrom(s, i + 1, <<>>)
    ELSE SplitFrom(s, i + 1, Append(cur, s[i]))
Split(s) == SplitFrom(s, 1, <<>>)

\* "chr" is prepended to a chromosome name that does not contain it
ChromNames == {"1", "chr1", "chr2"}
NormalizeChrom(chrom) == IF chrom = "1" THEN "chr1" ELSE chrom

\* a center that takes the 1-based pos for a 0-based coordinate
RefCenterUnshifted(pos, ref) == pos + Len(ref) \div 2

\* center of the window that holds the reference allele
RefCenter(pos, ref) == pos + Len(ref) \div 2 - 1

(* ----------------------- variant window resolver ----------------------- *)
AlleleClass(ref_len, alt_len) ==
    IF ref_len = alt_len THEN "substitution"
    ELSE IF ref_len > alt_len THEN "deletion"
    ELSE "insertion"

\* the splice placed one position to the right
SpliceAltShifted(sequence, a, remove_ref_start, ref_len) ==
    PyPrefix(sequence, remove_ref_start + 1) \o a
        \o PySuffix(sequence, remove_ref_start + 1 + ref_len)

\* the splice of one substitution: sequence[:k] + a + sequence[k + ref_len:]
SpliceAlt(sequence, a, remove_ref_start, ref_len) ==
    PyPrefix(sequence, remove_ref_start) \o a
        \o PySuffix(sequence, remove_ref_start + ref_len)

\* the body of the loop of _process_alts for one alternate allele
ProcessAlt(alt, ref, chrom, pos, ref_seq_center, sr, er, L) ==
    LET a == IF alt = <<"*">> THEN <<>> ELSE alt
        ref_len == Len(ref)
        alt_len == Len(a)
        window == get_sequence_from_coords(
                      chrom, ref_seq_center - sr, ref_seq_center + er, FALSE)
        sequence ==
            IF ref_len = alt_len
            THEN SpliceAlt(window, a, sr - ref_len \div 2, ref_len)
            ELSE IF ref_len > alt_len
            THEN get_sequence_from_coords(
                     chrom, pos - sr, pos - alt_len \div 2, FALSE)
                 \o a
                 \o get_sequence_from_coords(
                     chrom, pos + ref_len,
                     pos + ref_len + er - CeilHalf(alt_len), TRUE)
            ELSE get_sequence_from_coords(
                     chrom, pos - sr, pos - alt_len \div 2, FALSE)
                 \o a
                 \o get_sequence_from_coords(
                     chrom, pos + CeilHalf(alt_len), pos + er, FALSE)
    IN  [class |-> AlleleClass(ref_len, alt_len),
         a |-> a,
         window |-> window,
         sequence |-> sequence,
         assert_ok |-> (Len(sequence) = L)]

\* the alternates processed until the first failed assertion (inclusive)
RECURSIVE ProcessAltsFrom(_, _, _, _, _, _, _, _, _)
ProcessAltsFrom(all_alts, i, ref, chrom, pos, ref_seq_center, sr, er, L) ==
    IF i > Len(all_alts) THEN <<>>
    ELSE LET r == ProcessAlt(all_alts[i], ref, chrom, pos, ref_seq_center,
                             sr, er, L)
         IN  IF ~r.assert_ok THEN <<r>>
             ELSE <<r>> \o ProcessAltsFrom(all_alts, i + 1, ref, chrom, pos,
                                           ref_seq_center, sr, er, L)

ProcessAlts(all_alts, ref, chrom, pos, ref_seq_center, sr, er, L) ==
    LET trace == ProcessAltsFrom(all_alts, 1, ref, chrom, pos, ref_seq_center,
                                 sr, er, L)
        raised == \E i \in 1..Len(trace) : ~trace[i].assert_ok
    IN  [raised |-> raised,
         trace |-> trace,
         alt_encodings |->
             IF raised THEN <<>>
             ELSE [i \in 1..Len(trace) |->
                       sequence_to_encoding(trace[i].sequence)]]

(* --------------------- reference consistency check --------------------- *)
\* the assignment placed one row too early
AssignRowsEarly(seq_encoding, start_pos, ref_encoding) ==
    [i \in 1..Len(seq_encoding) |->
        IF i >= start_pos /\ i < start_pos + Len(ref_encoding)
        THEN ref_encoding[i - start_pos + 1]
        ELSE seq_encoding[i]]

\* seq_encoding[start_pos:start_pos + ref_len, :] = ref_encoding
AssignRows(seq_encoding, start_pos, ref_encoding) ==
    [i \in 1..Len(seq_encoding) |->
        IF i > start_pos /\ i <= start_pos + Len(ref_encoding)
        THEN ref_encoding[i - start_pos]
        ELSE seq_encoding[i]]

HandleStandardRef(ref_encoding, seq_encoding, sr) ==
    LET ref_len == Len(ref_encoding)
        start_pos == sr - ref_len \div 2
        sequence_encoding_at_ref ==
            PySlice(seq_encoding, start_pos, start_pos + ref_len)
        references_match == (sequence_encoding_at_ref = ref_encoding)
    IN  [match |-> references_match,
         seq_encoding |->
             IF ~references_match
             THEN AssignRows(seq_encoding, start_pos, ref_encoding)
             ELSE seq_encoding,
         seq_at_ref |-> encoding_to_sequence(sequence_encoding_at_ref)]

HandleLongRef(ref_encoding, seq_encoding, sr, er) ==
    LET ref_len == Len(ref_encoding)
        ref_start == ref_len \div 2 - sr
        ref_end == ref_len \div 2 + er
        ref_slice == PySlice(ref_encoding, ref_start, ref_end)
        references_match == (seq_encoding = ref_slice)
    IN  [match |-> references_match,
         seq_encoding |-> IF ~references_match THEN ref_slice
                          ELSE seq_encoding,
         seq_at_ref |-> encoding_to_sequence(seq_encoding)]

UseStandardRef(ref, L) == Len(ref) < L

HandleRef(ref, ref_encoding, seq_encoding, sr, er, L) ==
    IF UseStandardRef(ref, L)
    THEN HandleStandardRef(ref_encoding, seq_encoding, sr)
    ELSE HandleLongRef(ref_encoding, seq_encoding, sr, er)

\* one iteration of the loop of variant_effect_prediction over the variants
ResolveVariant(v, sr, er, L) ==
    LET center == RefCenter(v.pos, v.ref)
        start == center - sr
        end == center + er
        chrom == NormalizeChrom(v.chrom)
        fetched == get_encoding_from_coords(chrom, start, end)
        ref_encoding == sequence_to_encoding(v.ref)
        all_alts == Split(v.alt)
        alts == ProcessAlts(all_alts, v.ref, chrom, v.pos, center, sr, er, L)
        chk == HandleRef(v.ref, ref_encoding, fetched, sr, er, L)
        base == [chrom |-> chrom, center |-> center, start |-> start,
                 end |-> end, all_alts |-> all_alts]
        none == [fetched |-> <<>>, ref_encoding |-> <<>>, trace |-> <<>>,
                 alt_encodings |-> <<>>, regime |-> "none", match |-> TRUE,
                 seq_encoding |-> <<>>, seq_at_ref |-> <<>>]
    IN  IF ~coords_in_bounds(chrom, start, end)
        THEN [outcome |-> "NA"] @@ base @@ none
        ELSE IF alts.raised
        THEN [outcome |-> "AssertionError", fetched |-> fetched,
              ref_encoding |-> ref_encoding, trace |-> alts.trace]
             @@ base @@ none
        ELSE [outcome |-> IF chk.match THEN "match" ELSE "warning",
              fetched |-> fetched, ref_encoding |-> ref_encoding,
              trace |-> alts.trace, alt_encodings |-> alts.alt_encodings,
              regime |-> IF UseStandardRef(v.ref, L) THEN "standard"
                         ELSE "long",
              match |-> chk.match, seq_encoding |-> chk.seq_encoding,
              seq_at_ref |-> chk.seq_at_ref] @@ base

(* ----------------------- in-silico mutagenesis ------------------------- *)
\* concatenation of a list of lists
RECURSIVE Flatten(_)
Flatten(ls) == IF Len(ls) = 0 THEN <<>> ELSE Head(ls) \o Flatten(Tail(ls))

\* itertools.combinations(range(lo, n), k), as 0-based index tuples
RECURSIVE Combinations(_, _, _)
Combinations(lo, n, k) ==
    IF k = 0 THEN << <<>> >>
    ELSE IF n - lo < k THEN <<>>
    ELSE LET with == Combinations(lo + 1, n, k - 1)
         IN  [j \in 1..Len(with) |-> <<lo>> \o with[j]]
             \o Combinations(lo + 1, n, k)

\* a product in which the leftmost list advances fastest
RECURSIVE ProductLeftFirst(_)
ProductLeftFirst(lists) ==
    IF Len(lists) = 0 THEN << <<>> >>
    ELSE LET rest == ProductLeftFirst(Tail(lists))
             first == Head(lists)
         IN  Flatten([j \in 1..Len(rest) |->
                        [x \in 1..Len(first) |-> <<first[x]>> \o rest[j]]])

\* itertools.product(*lists): the rightmost list advances fastest
RECURSIVE Product(_)
Product(lists) ==
    IF Len(lists) = 0 THEN << <<>> >>
    ELSE LET rest == Product(Tail(lists))
             first == Head(lists)
         IN  Flatten([x \in 1..Len(first) |->
                        [j \in 1..Len(rest) |-> <<first[x]>> \o rest[j]]])

\* the alternates without the exclusion of the base that is there
SequenceAltsAll(ref) == BASES_ARR

\* the alternates of one position: every base of BASES_ARR but ref
SequenceAlts(ref) == SelectSeq(BASES_ARR, LAMBDA base : base # ref)

Zip(indices, mutations) ==
    [j \in 1..Len(indices) |-> <<indices[j], mutations[j]>>]

in_silico_mutagenesis_sequences(sequence, k) ==
    LET sequence_alts == [i \in 1..Len(sequence) |-> SequenceAlts(sequence[i])]
        combos == Combinations(0, Len(sequence), k)
        ForIndices(indices) ==
            LET pos_mutations ==
                    [j \in 1..Len(indices) |-> sequence_alts[indices[j] + 1]]
                products == Product(pos_mutations)
            IN  [m \in 1..Len(products) |-> Zip(indices, products[m])]
    IN  Flatten([c \in 1..Len(combos) |-> ForIndices(combos[c])])

(* --------------------------- mutate_sequence --------------------------- *)
\* mutated_seq[position, :] = 0
ZeroRow(row) == [j \in 1..AlphabetSize |-> 0]

\* the assignment of the 1 without zeroing the row first
SetBaseNoZero(arr, position, replace_base) ==
    [arr EXCEPT ![position + 1] = [@ EXCEPT ![replace_base] = 1]]

\* mutated_seq[position, :] = 0; mutated_seq[position, replace_base] = 1
SetBase(arr, position, replace_base) ==
    [arr EXCEPT ![position + 1] =
        [ZeroRow(@) EXCEPT ![replace_base] = 1]]

\* the loop over the (position, alt) pairs; a base outside BASE_TO_INDEX
\* raises KeyError and leaves the working array as it is at that point
RECURSIVE MutateFrom(_, _, _)
MutateFrom(arr, mutation_info, i) ==
    IF i > Len(mutation_info) THEN [raised |-> FALSE, arr |-> arr]
    ELSE LET position == mutation_info[i][1]
             alt == mutation_info[i][2]
         IN  IF alt \notin DOMAIN BASE_TO_INDEX
             THEN [raised |-> TRUE, arr |-> arr]
             ELSE MutateFrom(SetBase(arr, position, BASE_TO_INDEX[alt]),
                             mutation_info, i + 1)

\* no copy: the caller's array is the array that is written
CallerArrayAliased(caller_encoding, working) == working

\* np.copy(encoding): the caller's array is not the array that is written
CallerArrayAfter(caller_encoding, working) == caller_encoding

mutate_sequence(enc, mutation_info) ==
    LET r == MutateFrom(enc, mutation_info, 1)
    IN  [raised |-> r.raised,
         ret |-> IF r.raised THEN <<>> ELSE r.arr,
         caller |-> CallerArrayAfter(enc, r.arr)]

(* ------------------------------ inputs --------------------------------- *)
Bases == {BASES_ARR[j] : j \in 1..AlphabetSize}
Symbols == Bases \cup {UNK_BASE}

\* alleles of the VCF records are written over two bases
AlleleBases == {"A", "C"}
RefAlleles == SeqsUpTo(AlleleBases, MaxRefLen) \ {<<>>}
\* an alternate is a string over the bases or the deletion mark "*" alone
IsAllele(a) == a = <<"*">> \/ \A i \in 1..Len(a) : a[i] \in AlleleBases
AltStrings ==
    {s \in SeqsUpTo(AlleleBases \cup {",", "*"}, MaxAltStrLen) :
        \A i \in 1..Len(Split(s)) : IsAllele(Split(s)[i])}
Variants == [chrom : ChromNames, pos : 1..(ChromLen + 1), name : {"rs1"},
             ref : RefAlleles, alt : AltStrings]

IsmSequences == SeqsUpTo(Symbols, MaxIsmLen)
MutationSetsFor(L) == SeqsUpTo((0..(L - 1)) \X Symbols, MaxMutations)
Encodings ==
    {sequence_to_encoding(s) : s \in SeqsUpTo(Symbols, MaxEncLen) \ {<<>>}}

NoVariant == [chrom |-> "", pos |-> 0, name |-> "", ref |-> <<>>, alt |-> <<>>]
NoVep == [outcome |-> "none"]
NoMutated == [raised |-> FALSE, ret |-> <<>>, caller |-> <<>>]

(* --------------------------- state machine ----------------------------- *)
\* no driver is running: default configuration, nothing batched or called
DriverIdle ==
    /\ batch_size = 1 /\ write_mem_limit = 0
    /\ save_data = <<>> /\ mode = "none" /\ reporters = <<>>
    /\ variants = <<>> /\ idx = 0
    /\ batch_ref_seqs = <<>> /\ batch_alt_seqs = <<>> /\ batch_ids = <<>>
    /\ calls = <<>>
    /\ fasta_file = <<>> /\ sequences = <<>>

\* AnalyzeSequences.__init__
Construct(L) ==
    /\ sequence_length = L
    /\ start_radius = StartRadius(L)
    /\ end_radius = EndRadius(L)

InitVariant ==
    /\ task = "varianteffect"
    /\ variant \in Variants
    /\ ism_sequence = <<>> /\ mutate_n_bases = 0
    /\ encoding = <<>> /\ mutation_information = <<>>

InitIsm ==
    /\ task = "ism"
    /\ variant = NoVariant
    /\ ism_sequence \in IsmSequences /\ mutate_n_bases \in 0..MaxK
    /\ encoding = <<>> /\ mutation_information = <<>>

InitMutate ==
    /\ task = "mutate"
    /\ variant = NoVariant
    /\ ism_sequence = <<>> /\ mutate_n_bases = 0
    /\ encoding \in Encodings
    /\ mutation_information \in MutationSetsFor(Len(encoding))

Init ==
    /\ \E L \in 1..MaxSeqLen : Construct(L)
    /\ pc = "ready"
    /\ vep = NoVep
    /\ all_mutated_sequences = <<>>
    /\ mutated = NoMutated
    /\ (InitVariant \/ InitIsm \/ InitMutate)
    /\ DriverIdle

\* variant_effect_prediction: the resolution of one variant
VariantEffectPrediction ==
    /\ task = "varianteffect" /\ pc = "ready"
    /\ vep' = ResolveVariant(variant, start_radius, end_radius,
                             sequence_length)
    /\ pc' = "done"
    /\ UNCHANGED <<sequence_length, start_radius, end_radius, task, variant,
                   ism_sequence, mutate_n_bases, all_mutated_sequences,
                   encoding, mutation_information, mutated>>
    /\ UNCHANGED driverVars

InSilicoMutagenesisSequences ==
    /\ task = "ism" /\ pc = "ready"
    /\ all_mutated_sequences' =
           in_silico_mutagenesis_sequences(ism_sequence, mutate_n_bases)
    /\ pc' = "done"
    /\ UNCHANGED <<sequence_length, start_radius, end_radius, task, variant,
                   vep, ism_sequence, mutate_n_bases,
                   encoding, mutation_information, mutated>>
    /\ UNCHANGED driverVars

MutateSequence ==
    /\ task = "mutate" /\ pc = "ready"
    /\ LET r == mutate_sequence(encoding, mutation_information)
       IN  /\ mutated' = r
           /\ encoding' = r.caller
    /\ pc' = "done"
    /\ UNCHANGED <<sequence_length, start_radius, end_radius, task, variant,
                   vep, ism_sequence, mutate_n_bases, all_mutated_sequences,
                   mutation_information>>
    /\ UNCHANGED driverVars

Next ==
    \/ VariantEffectPrediction
    \/ InSilicoMutagenesisSequences
    \/ MutateSequence

Spec == Init /\ [][Next]_vars

(* ------------------------------ reporters ------------------------------ *)
Range(list) == {list[i] : i \in 1..Len(list)}

\* the kinds of output, in the order in which their handlers are appended
RecognizedKinds == <<"diffs", "abs_diffs", "logits", "predictions">>

\* the handler that saves plain predictions whatever the mode
PredictionsHandlerAnyMode(m) == "WritePredictionsHandler"

\* the handler that saves predictions: paired ref/alt for variant effects
PredictionsHandler(m) ==
    IF m # "varianteffect" THEN "WritePredictionsHandler"
    ELSE "WriteRefAltHandler"

HandlerFor(kind, m) ==
    CASE kind = "diffs" -> "DiffScoreHandler"
      [] kind = "abs_diffs" -> "AbsDiffScoreHandler"
      [] kind = "logits" -> "LogitScoreHandler"
      [] kind = "predictions" -> PredictionsHandler(m)

\* the budget divided by the length of the list as it was passed
HandlerBudgetRaw(limit, save_data_list, recognized) ==
    limit \div Len(save_data_list)

\* self._write_mem_limit // len(save_data), save_data being the filtered set
HandlerBudget(limit, save_data_list, recognized) ==
    limit \div Cardinality(recognized)

\* needs_base_pred of a handler class
needs_base_pred(handler) == handler # "WritePredictionsHandler"

initialize_reporters(save_data_list, limit, m) ==
    LET recognized == Range(save_data_list) \cap Range(RecognizedKinds)
        kinds == SelectSeq(RecognizedKinds, LAMBDA k : k \in recognized)
    IN  IF recognized = {} THEN [raised |-> TRUE, reporters |-> <<>>]
        ELSE [raised |-> FALSE,
              reporters |->
                  [i \in 1..Len(kinds) |->
                      [handler |-> HandlerFor(kinds[i], m),
                       write_mem_limit |->
                           HandlerBudget(limit, save_data_list, recognized)]]]

\* no pure function is being applied
CoreIdle ==
    /\ variant = NoVariant /\ vep = NoVep
    /\ ism_sequence = <<>> /\ mutate_n_bases = 0
    /\ all_mutated_sequences = <<>>
    /\ encoding = <<>> /\ mutation_information = <<>>
    /\ mutated = NoMutated

SaveDataNames == Range(RecognizedKinds) \cup {"other"}
SaveDataLists == SeqsUpTo(SaveDataNames, MaxSaveData)
Modes == {"prediction", "ism", "varianteffect"}

InitReporters ==
    /\ \E L \in 1..MaxSeqLen : Construct(L)
    /\ task = "reporters" /\ pc = "ready"
    /\ CoreIdle
    /\ batch_size = 1
    /\ write_mem_limit \in 0..MaxMemLimit
    /\ save_data \in SaveDataLists
    /\ mode \in Modes
    /\ reporters = <<>>
    /\ variants = <<>> /\ idx = 0
    /\ batch_ref_seqs = <<>> /\ batch_alt_seqs = <<>> /\ batch_ids = <<>>
    /\ calls = <<>>
    /\ fasta_file = <<>> /\ sequences = <<>>

\* _initialize_reporters
InitializeReporters ==
    /\ task = "reporters" /\ pc = "ready"
    /\ LET r == initialize_reporters(save_data, write_mem_limit, mode)
       IN  /\ reporters' = r.reporters
           /\ pc' = IF r.raised THEN "ValueError" ELSE "done"
    /\ UNCHANGED <<sequence_length, start_radius, end_radius, task, variant,
                   vep, ism_sequence, mutate_n_bases, all_mutated_sequences,
                   encoding, mutation_information, mutated>>
    /\ UNCHANGED <<batch_size, write_mem_limit, save_data, mode, variants,
                   idx, batch_ref_seqs, batch_alt_seqs, batch_ids, calls,
                   fasta_file, sequences>>

NextReporters == InitializeReporters

SpecReporters == InitReporters /\ [][NextReporters]_vars

(* ---------------------- variant effect prediction ---------------------- *)
\* the model is opaque: the prediction of an encoding is a value that
\* names the encoding it was computed from
PredictOne(enc) == <<"pred", enc>>
Predict(batch) == [i \in 1..Len(batch) |-> PredictOne(batch[i])]

\* one call made by a driver: predict (reporter 0) or a method of the
\* reporter with the given index; vi is the loop index of the caller
Call(op, reporter, batch, ids, base, has_base, vi) ==
    [op |-> op, reporter |-> reporter, batch |-> batch, ids |-> ids,
     base |-> base, has_base |-> has_base, vi |-> vi]

\* a reporter method chosen without looking at the warning flag
ReporterMethodIgnoringWarn(warn) == "handle_batch_predictions"

\* the reporter method that receives a batch: diverted when warn is set
ReporterMethod(warn) ==
    IF warn THEN "handle_warning" ELSE "handle_batch_predictions"

\* _handle_ref_alt_predictions: two calls of predict, then one call per
\* reporter, with the reference outputs where the reporter needs them
HandleRefAltPredictions(ref_seqs, alt_seqs, ids, reps, warn, vi) ==
    LET ref_outputs == Predict(ref_seqs)
        alt_outputs == Predict(alt_seqs)
    IN  <<Call("predict", 0, ref_seqs, <<>>, <<>>, FALSE, vi),
          Call("predict", 0, alt_seqs, <<>>, <<>>, FALSE, vi)>>
        \o [r \in 1..Len(reps) |->
               IF needs_base_pred(reps[r].handler)
               THEN Call(ReporterMethod(warn), r, alt_outputs, ids,
                         ref_outputs, TRUE, vi)
               ELSE Call(ReporterMethod(warn), r, alt_outputs, ids,
                         <<>>, FALSE, vi)]

\* NA reported to the first reporter only
HandleNAFirstOnly(reps, id, vi) ==
    [r \in 1..Min(Len(reps), 1) |->
        Call("handle_NA", r, <<>>, <<id>>, <<>>, FALSE, vi)]

\* for r in reporters: r.handle_NA((chrom, pos, name, ref, alt))
HandleNA(reps, id, vi) ==
    [r \in 1..Len(reps) |->
        Call("handle_NA", r, <<>>, <<id>>, <<>>, FALSE, vi)]

\* for r in reporters: r.write_to_file(close=True)
WriteToFile(reps, vi) ==
    [r \in 1..Len(reps) |->
        Call("write_to_file", r, <<>>, <<>>, <<>>, FALSE, vi)]

\* [(chrom, pos, name, ref, a) for a in all_alts]
RowIds(chrom, v, all_alts) ==
    [i \in 1..Len(all_alts) |-> <<chrom, v.pos, v.name, v.ref, all_alts[i]>>]

\* [seq_encoding] * len(all_alts)
Replicate(x, n) == [i \in 1..n |-> x]

\* the variants of the VCF file are drawn from a pool that holds a match,
\* a mismatch, multi-allelic records, records without a window and a
\* record whose second alternate is longer than every window
VepPool ==
    {[chrom |-> "1", pos |-> 2, name |-> "rs1",
      ref |-> <<"C">>, alt |-> <<"A">>],
     [chrom |-> "chr1", pos |-> 3, name |-> "rs2",
      ref |-> <<"C">>, alt |-> <<"A", ",", "G", ",", "*">>],
     [chrom |-> "1", pos |-> 2, name |-> "rs3",
      ref |-> <<"A">>, alt |-> <<"C", ",", "T">>],
     [chrom |-> "chr2", pos |-> 2, name |-> "rs4",
      ref |-> <<"C">>, alt |-> <<"A">>],
     [chrom |-> "1", pos |-> ChromLen + 1, name |-> "rs5",
      ref |-> <<"C">>, alt |-> <<"A", ",", "G">>],
     [chrom |-> "1", pos |-> 3, name |-> "rs6",
      ref |-> <<"C">>,
      alt |-> <<"G", ",">> \o [i \in 1..(MaxSeqLen + 1) |-> "A"]]}

VepSaveData == {<<"diffs">>, <<"logits", "predictions">>}

InitVep ==
    /\ \E L \in 1..MaxSeqLen : Construct(L)
    /\ task = "vep_run" /\ pc = "start"
    /\ CoreIdle
    /\ batch_size \in 1..MaxBatchSize
    /\ write_mem_limit = MaxMemLimit
    /\ save_data \in VepSaveData
    /\ mode = "varianteffect"
    /\ reporters = <<>>
    /\ variants \in SeqsUpTo(VepPool, MaxVariants)
    /\ idx = 0
    /\ batch_ref_seqs = <<>> /\ batch_alt_seqs = <<>> /\ batch_ids = <<>>
    /\ calls = <<>>
    /\ fasta_file = <<>> /\ sequences = <<>>

\* variant_effect_prediction up to the loop: the reporters are built
VepStart ==
    /\ task = "vep_run" /\ pc = "start"
    /\ LET r == initialize_reporters(save_data, write_mem_limit, mode)
       IN  /\ reporters' = r.reporters
           /\ pc' = IF r.raised THEN "ValueError" ELSE "loop"
    /\ UNCHANGED <<sequence_length, start_radius, end_radius, task, variant,
                   vep, ism_sequence, mutate_n_bases, all_mutated_sequences,
                   encoding, mutation_information, mutated>>
    /\ UNCHANGED <<batch_size, write_mem_limit, save_data, mode, variants,
                   idx, batch_ref_seqs, batch_alt_seqs, batch_ids, calls,
                   fasta_file, sequences>>

\* if len(batch_ref_seqs) >= self.batch_size: predict, report and reset
VepFlush(ref_seqs, alt_seqs, ids) ==
    IF Len(ref_seqs) >= batch_size
    THEN [calls |-> HandleRefAltPredictions(ref_seqs, alt_seqs, ids,
                                            reporters, FALSE, idx + 1),
          ref_seqs |-> <<>>, alt_seqs |-> <<>>, ids |-> <<>>]
    ELSE [calls |-> <<>>, ref_seqs |-> ref_seqs, alt_seqs |-> alt_seqs,
          ids |-> ids]

\* the rows of a matched variant join the pending batch, which is flushed
\* when it has reached batch_size
VepAppend(r, ids) ==
    VepFlush(batch_ref_seqs \o Replicate(r.seq_encoding, Len(ids)),
             batch_alt_seqs \o r.alt_encodings,
             batch_ids \o ids)

\* the body of the loop for the variant v: r is its resolution, ids the
\* row identifiers of its alternates, f the pending batch after a match
VepBody(v, r, ids, f) ==
    /\ variant' = v
    /\ vep' = r
    /\ pc' = IF r.outcome = "AssertionError" THEN "AssertionError" ELSE pc
    /\ idx' = IF r.outcome = "AssertionError" THEN idx ELSE idx + 1
    /\ calls' = CASE r.outcome = "NA" ->
                       calls \o HandleNA(reporters,
                                         <<r.chrom, v.pos, v.name, v.ref,
                                           v.alt>>,
                                         idx + 1)
                  [] r.outcome = "AssertionError" -> calls
                  [] r.outcome = "warning" ->
                       calls \o HandleRefAltPredictions(
                                    Replicate(r.seq_encoding, Len(ids)),
                                    r.alt_encodings, ids, reporters, TRUE,
                                    idx + 1)
                  [] r.outcome = "match" -> calls \o f.calls
    /\ batch_ref_seqs' =
           IF r.outcome = "match" THEN f.ref_seqs ELSE batch_ref_seqs
    /\ batch_alt_seqs' =
           IF r.outcome = "match" THEN f.alt_seqs ELSE batch_alt_seqs
    /\ batch_ids' = IF r.outcome = "match" THEN f.ids ELSE batch_ids

\* one iteration of the loop over the variants
VepVariant ==
    /\ task = "vep_run" /\ pc = "loop" /\ idx < Len(variants)
    /\ VepBody(variants[idx + 1],
               ResolveVariant(variants[idx + 1], start_radius,
                              end_radius, sequence_length),
               RowIds(NormalizeChrom(variants[idx + 1].chrom),
                      variants[idx + 1],
                      Split(variants[idx + 1].alt)),
               VepAppend(ResolveVariant(variants[idx + 1], start_radius,
                                        end_radius, sequence_length),
                         RowIds(NormalizeChrom(variants[idx + 1].chrom),
                                variants[idx + 1],
                                Split(variants[idx + 1].alt))))
    /\ UNCHANGED <<sequence_length, start_radius, end_radius, task,
                   ism_sequence, mutate_n_bases, all_mutated_sequences,
                   encoding, mutation_information, mutated>>
    /\ UNCHANGED <<batch_size, write_mem_limit, save_data, mode, reporters,
                   variants, fasta_file, sequences>>

\* after the loop: the pending batch is predicted, the reporters are closed
VepFinish ==
    /\ task = "vep_run" /\ pc = "loop" /\ idx = Len(variants)
    /\ calls' = calls
           \o (IF batch_ref_seqs # <<>>
               THEN HandleRefAltPredictions(batch_ref_seqs, batch_alt_seqs,
                                            batch_ids, reporters, FALSE,
                                            idx + 1)
               ELSE <<>>)
           \o WriteToFile(reporters, idx + 1)
    /\ pc' = "closed"
    /\ UNCHANGED <<sequence_length, start_radius, end_radius, task, variant,
                   vep, ism_sequence, mutate_n_bases, all_mutated_sequences,
                   encoding, mutation_information, mutated>>
    /\ UNCHANGED <<batch_size, write_mem_limit, save_data, mode, reporters,
                   variants, idx, batch_ref_seqs, batch_alt_seqs, batch_ids,
                   fasta_file, sequences>>

NextVep ==
    \/ VepStart
    \/ VepVariant
    \/ VepFinish

SpecVep == InitVep /\ [][NextVep]_vars

(* -------------------- in-silico mutagenesis drivers -------------------- *)
\* str.upper on one symbol: the lower-case base "a" becomes "A"
UpperBase(ch) == IF ch = "a" THEN "A" ELSE ch
Upper(s) == [i \in 1..Len(s) |-> UpperBase(s[i])]

\* _pad_sequence: floor((L - n) / 2) unknown bases on the left and
\* ceil((L - n) / 2) on the right, then str.upper
pad_sequence(sequence, L) ==
    LET pad_l == (L - Len(sequence)) \div 2
        pad_r == CeilHalf(L - Len(sequence))
    IN  Upper([i \in 1..pad_l |-> UNK_BASE] \o sequence
                  \o [i \in 1..pad_r |-> UNK_BASE])

\* _truncate_sequence: the centred substring of length L, then str.upper
truncate_sequence(sequence, L) ==
    LET start == (Len(sequence) - L) \div 2
        end == start + L
    IN  Upper(PySlice(sequence, start, end))

\* the sequence a driver works on: padded, truncated or as given, upper case
FitSequence(sequence, L) ==
    IF Len(sequence) < L THEN pad_sequence(sequence, L)
    ELSE IF Len(sequence) > L THEN truncate_sequence(sequence, L)
    ELSE Upper(sequence)

\* _ism_sample_id: the positions, the bases of the sequence at them and
\* the replacement bases of one mutation set
ism_sample_id(sequence, mutation_info) ==
    <<[i \in 1..Len(mutation_info) |-> mutation_info[i][1]],
      [i \in 1..Len(mutation_info) |-> sequence[mutation_info[i][1] + 1]],
      [i \in 1..Len(mutation_info) |-> mutation_info[i][2]]>>

\* the inner loop of in_silico_mutagenesis_predict over one batch: every
\* mutation set is applied by mutate_sequence to the array the caller holds
RECURSIVE IsmMutateFrom(_, _, _)
IsmMutateFrom(enc, batch, i) ==
    IF i > Len(batch) THEN <<>>
    ELSE LET m == mutate_sequence(enc, batch[i])
         IN  <<m.ret>> \o IsmMutateFrom(m.caller, batch, i + 1)

\* the array the caller holds after the inner loop over one batch
RECURSIVE IsmCallerAfter(_, _, _)
IsmCallerAfter(enc, batch, i) ==
    IF i > Len(batch) THEN enc
    ELSE IsmCallerAfter(mutate_sequence(enc, batch[i]).caller, batch, i + 1)

\* the calls of one batch: one predict call, then one
\* handle_batch_predictions call per reporter
IsmBatchCalls(sequence, enc, base_preds, batch, reps, vi) ==
    LET mutated_sequences == IsmMutateFrom(enc, batch, 1)
        batch_ids_ == [i \in 1..Len(batch) |-> ism_sample_id(sequence, batch[i])]
        outputs == Predict(mutated_sequences)
    IN  <<Call("predict", 0, mutated_sequences, <<>>, <<>>, FALSE, vi)>>
        \o [r \in 1..Len(reps) |->
               IF needs_base_pred(reps[r].handler)
               THEN Call("handle_batch_predictions", r, outputs, batch_ids_,
                         base_preds, TRUE, vi)
               ELSE Call("handle_batch_predictions", r, outputs, batch_ids_,
                         <<>>, FALSE, vi)]

\* a batch end that leaves out the last mutation set of the list
BatchEndDropLast(i, bs, n) == Min(i + bs, n - 1)

\* end = min(i + self.batch_size, len(mutations_list))
BatchEnd(i, bs, n) == Min(i + bs, n)

\* for i in range(0, len(mutations_list), batch_size)
RECURSIVE IsmBatchesFrom(_, _, _, _, _, _, _, _)
IsmBatchesFrom(sequence, enc, base_preds, mutations_list, i, bs, reps, vi) ==
    IF i >= Len(mutations_list) THEN <<>>
    ELSE LET end == BatchEnd(i, bs, Len(mutations_list))
             batch == SubSeq(mutations_list, i + 1, end)
         IN  IsmBatchCalls(sequence, enc, base_preds, batch, reps, vi)
             \o IsmBatchesFrom(sequence, IsmCallerAfter(enc, batch, 1),
                               base_preds, mutations_list, i + bs, bs, reps,
                               vi)

\* in_silico_mutagenesis_predict: the batches, then write_to_file
in_silico_mutagenesis_predict(sequence, base_preds, mutations_list, bs, reps, vi) ==
    IsmBatchesFrom(sequence, sequence_to_encoding(sequence), base_preds,
                   mutations_list, 0, bs, reps, vi)
    \o WriteToFile(reps, vi)

\* what both drivers do for one sequence once the mutation sets are
\* enumerated: build the reporters, predict the unmutated sequence, hand
\* that prediction to the predictions reporter, then predict the mutations
IsmReport(sequence, mutations_list, reps, vi) ==
    LET base_preds == Predict(<<sequence_to_encoding(sequence)>>)
    IN  <<Call("predict", 0, <<sequence_to_encoding(sequence)>>, <<>>, <<>>,
               FALSE, vi)>>
        \o (IF "predictions" \in Range(save_data)
            THEN <<Call("handle_batch_predictions", Len(reps), base_preds,
                        << <<"NA", "NA", "NA">> >>, <<>>, FALSE, vi)>>
            ELSE <<>>)
        \o in_silico_mutagenesis_predict(sequence, base_preds,
                                         mutations_list, batch_size, reps, vi)

\* the mutation sets in_silico_mutagenesis enumerates: mutate_n_bases=1 is
\* written in the call, whatever the caller asked for
SingleMutations(sequence, k) == in_silico_mutagenesis_sequences(sequence, 1)

\* the mutation sets in_silico_mutagenesis_from_file enumerates
FileMutations(sequence, k) == in_silico_mutagenesis_sequences(sequence, k)

\* the input sequences of the drivers: shorter than, as long as and longer
\* than the windows, one with a lower-case base
IsmPool ==
    {<<"A">>, <<"a", "C">>, <<"A", "C", "N">>, <<"C", "A", "G", "T", "A">>}

FastaRecords == [name : {"s"}, seq : IsmPool]

IsmSaveData == {<<"diffs">>, <<"logits", "predictions">>}

InitIsmDriver ==
    /\ \E L \in 1..MaxDriverLen : Construct(L)
    /\ task \in {"ism_single", "ism_file"}
    /\ pc = "start"
    /\ variant = NoVariant /\ vep = NoVep
    /\ encoding = <<>> /\ mutation_information = <<>>
    /\ mutated = NoMutated
    /\ mutate_n_bases \in 1..MaxDriverK
    /\ batch_size \in 1..MaxBatchSize
    /\ write_mem_limit = MaxMemLimit
    /\ save_data \in IsmSaveData
    /\ mode = "ism"
    /\ reporters = <<>>
    /\ IF task = "ism_single"
       THEN ism_sequence \in IsmPool /\ fasta_file = <<>>
       ELSE ism_sequence = <<>>
            /\ fasta_file \in SeqsUpTo(FastaRecords, MaxRecords)
    /\ all_mutated_sequences = <<>>
    /\ variants = <<>> /\ idx = 0
    /\ batch_ref_seqs = <<>> /\ batch_alt_seqs = <<>> /\ batch_ids = <<>>
    /\ calls = <<>>
    /\ sequences = <<>>

\* in_silico_mutagenesis, from the call to the closed reporters
InSilicoMutagenesis ==
    /\ task = "ism_single" /\ pc = "start"
    /\ LET sequence == FitSequence(ism_sequence, sequence_length)
           mutated_sequences == SingleMutations(sequence, mutate_n_bases)
           r == initialize_reporters(save_data, write_mem_limit, mode)
       IN  /\ all_mutated_sequences' = mutated_sequences
           /\ reporters' = r.reporters
           /\ encoding' = sequence_to_encoding(sequence)
           /\ calls' = IF r.raised THEN calls
                       ELSE calls \o IsmReport(sequence, mutated_sequences,
                                               r.reporters, 1)
           /\ pc' = IF r.raised THEN "ValueError" ELSE "closed"
    /\ UNCHANGED <<sequence_length, start_radius, end_radius, task, variant,
                   vep, ism_sequence, mutate_n_bases, mutation_information,
                   mutated>>
    /\ UNCHANGED <<batch_size, write_mem_limit, save_data, mode, variants,
                   idx, batch_ref_seqs, batch_alt_seqs, batch_ids,
                   fasta_file, sequences>>

\* in_silico_mutagenesis_from_file: one iteration of the loop over the
\* records of the FASTA file
IsmFileRecord ==
    /\ task = "ism_file" /\ pc = "start" /\ idx < Len(fasta_file)
    /\ LET cur_sequence ==
               FitSequence(fasta_file[idx + 1].seq, sequence_length)
           mutated_sequences == FileMutations(cur_sequence, mutate_n_bases)
           r == initialize_reporters(save_data, write_mem_limit, mode)
       IN  /\ ism_sequence' = fasta_file[idx + 1].seq
           /\ all_mutated_sequences' = mutated_sequences
           /\ reporters' = r.reporters
           /\ encoding' = sequence_to_encoding(cur_sequence)
           /\ calls' = calls \o
                 (<<Call("predict", 0,
                         <<sequence_to_encoding(cur_sequence)>>, <<>>, <<>>,
                         FALSE, idx + 1)>>
                  \o IF r.raised THEN <<>>
                     ELSE Tail(IsmReport(cur_sequence, mutated_sequences,
                                         r.reporters, idx + 1)))
           /\ pc' = IF r.raised THEN "ValueError" ELSE pc
           /\ idx' = IF r.raised THEN idx ELSE idx + 1
    /\ UNCHANGED <<sequence_length, start_radius, end_radius, task, variant,
                   vep, mutate_n_bases, mutation_information, mutated>>
    /\ UNCHANGED <<batch_size, write_mem_limit, save_data, mode, variants,
                   batch_ref_seqs, batch_alt_seqs, batch_ids, fasta_file,
                   sequences>>

\* fasta_file.close() after the last record
IsmFileClose ==
    /\ task = "ism_file" /\ pc = "start" /\ idx = Len(fasta_file)
    /\ pc' = "closed"
    /\ UNCHANGED <<sequence_length, start_radius, end_radius, task, variant,
                   vep, ism_sequence, mutate_n_bases, all_mutated_sequences,
                   encoding, mutation_information, mutated>>
    /\ UNCHANGED driverVars

NextIsmDriver ==
    \/ InSilicoMutagenesis
    \/ IsmFileRecord
    \/ IsmFileClose

SpecIsmDriver == InitIsmDriver /\ [][NextIsmDriver]_vars

(* ------------------- predictions for a FASTA file ---------------------- *)
\* one row of the buffer `sequences`: the encoding it holds and, for the
\* bookkeeping of the claims, the index of the record it was encoded from
\* (-1 for a row of zeros)
Slot(rec, enc) == [rec |-> rec, enc |-> enc]

\* np.zeros((batch_size, sequence_length, len(BASES_ARR)))
ZeroSlots(bs, L) ==
    [s \in 1..bs |-> Slot(-1, [i \in 1..L |-> [j \in 1..AlphabetSize |-> 0]])]

\* the sequence of a record, padded or truncated to the window length
FitRecord(sequence, L) ==
    IF Len(sequence) < L THEN pad_sequence(sequence, L)
    ELSE IF Len(sequence) > L THEN truncate_sequence(sequence, L)
    ELSE sequence

\* if i and i % self.batch_size == 0
FlushDue(i, bs) == i # 0 /\ i % bs = 0

\* the records of the file: upper-case sequences shorter and longer than
\* the windows
PredictionRecords == [name : {"s"}, seq : {<<"A">>, <<"A", "C", "G">>}]

InitFasta ==
    /\ \E L \in 1..MaxSeqLen : Construct(L)
    /\ task = "fasta" /\ pc = "start"
    /\ CoreIdle
    /\ batch_size \in 1..MaxBatchSize
    /\ write_mem_limit = MaxMemLimit
    /\ save_data = <<"predictions">>
    /\ mode = "prediction"
    /\ reporters = <<>>
    /\ variants = <<>> /\ idx = 0
    /\ batch_ref_seqs = <<>> /\ batch_alt_seqs = <<>> /\ batch_ids = <<>>
    /\ calls = <<>>
    /\ fasta_file \in SeqsUpTo(PredictionRecords, MaxFastaRecords)
    /\ sequences = <<>>

\* get_predictions_for_fasta_file up to the loop: the reporter and the
\* buffer of batch_size rows of zeros
FastaStart ==
    /\ task = "fasta" /\ pc = "start"
    /\ reporters' = <<initialize_reporters(save_data, write_mem_limit,
                                           mode).reporters[1]>>
    /\ sequences' = ZeroSlots(batch_size, sequence_length)
    /\ batch_ids' = <<>>
    /\ pc' = "loop"
    /\ UNCHANGED <<sequence_length, start_radius, end_radius, task, variant,
                   vep, ism_sequence, mutate_n_bases, all_mutated_sequences,
                   encoding, mutation_information, mutated>>
    /\ UNCHANGED <<batch_size, write_mem_limit, save_data, mode, variants,
                   idx, batch_ref_seqs, batch_alt_seqs, calls, fasta_file>>

\* one iteration of the loop, i = idx being the index of the record
FastaRecord ==
    /\ task = "fasta" /\ pc = "loop" /\ idx < Len(fasta_file)
    /\ encoding' = sequence_to_encoding(
                       FitRecord(fasta_file[idx + 1].seq, sequence_length))
    /\ batch_ids' = Append(batch_ids, <<idx, fasta_file[idx + 1].name>>)
    /\ calls' = IF FlushDue(idx, batch_size)
                THEN calls \o
                     <<Call("predict", 0, sequences, <<>>, <<>>, FALSE, idx),
                       Call("handle_batch_predictions", 1, Predict(sequences),
                            batch_ids', <<>>, FALSE, idx)>>
                ELSE calls
    /\ sequences' =
           [(IF FlushDue(idx, batch_size)
             THEN ZeroSlots(batch_size, sequence_length)
             ELSE sequences)
            EXCEPT ![(idx % batch_size) + 1] = Slot(idx, encoding')]
    /\ idx' = idx + 1
    /\ UNCHANGED <<sequence_length, start_radius, end_radius, task, variant,
                   vep, ism_sequence, mutate_n_bases, all_mutated_sequences,
                   mutation_information, mutated>>
    /\ UNCHANGED <<batch_size, write_mem_limit, save_data, mode, reporters,
                   variants, batch_ref_seqs, batch_alt_seqs, fasta_file, pc>>

\* after the loop, i = idx - 1 being the index of the last record: the
\* partial batch, then close; with no record i was never bound
FastaFinish ==
    /\ task = "fasta" /\ pc = "loop" /\ idx = Len(fasta_file)
    /\ IF idx = 0
       THEN /\ pc' = "UnboundLocalError"
            /\ UNCHANGED <<sequences, calls>>
       ELSE /\ pc' = "closed"
            /\ sequences' =
                   IF (idx - 1) % batch_size # 0
                   THEN PyPrefix(sequences, ((idx - 1) % batch_size) + 1)
                   ELSE sequences
            /\ calls' = calls
                   \o (IF (idx - 1) % batch_size # 0
                       THEN <<Call("predict", 0, sequences', <<>>, <<>>,
                                   FALSE, idx),
                              Call("handle_batch_predictions", 1,
                                   Predict(sequences'), batch_ids, <<>>,
                                   FALSE, idx)>>
                       ELSE <<>>)
                   \o WriteToFile(reporters, idx)
    /\ UNCHANGED <<sequence_length, start_radius, end_radius, task, variant,
                   vep, ism_sequence, mutate_n_bases, all_mutated_sequences,
                   encoding, mutation_information, mutated>>
    /\ UNCHANGED <<batch_size, write_mem_limit, save_data, mode, reporters,
                   variants, idx, batch_ref_seqs, batch_alt_seqs, batch_ids,
                   fasta_file>>

NextFasta ==
    \/ FastaStart
    \/ FastaRecord
    \/ FastaFinish

SpecFasta == InitFasta /\ [][NextFasta]_vars

(* ============================== claims ================================= *)
Resolved == task = "varianteffect" /\ pc = "done"
Windowed == Resolved /\ vep.outcome \in {"match", "warning"}

\* C1: for every positive sequence_length L the engine holds
\* start_radius = floor(L/2) and end_radius = start_radius (L even) or
\* start_radius + 1 (L odd), so start_radius + end_radius = L and every
\* window [center - start_radius, center + end_radius) has exactly L
\* positions; this holds in every state, before and after every operation.
C1_RadiiFixed ==
    /\ sequence_length >= 1
    /\ 2 * start_radius <= sequence_length
    /\ sequence_length < 2 * start_radius + 2
    /\ end_radius = start_radius + (sequence_length - 2 * start_radius)
    /\ start_radius + end_radius = sequence_length
    /\ \A center \in 0..ChromLen :
          Cardinality({x \in (center - start_radius)..(center + end_radius) :
                          x < center + end_radius}) = sequence_length

C1_Witness ==
    /\ pc = "done"
    /\ sequence_length % 2 = 1
    /\ end_radius = start_radius + 1

\* C2: for a substitution variant (len(ref) = len(alt)) whose
\* reference-centered window is in bounds, the window built by
\* _process_alts has length exactly sequence_length (the assertion of the
\* substitution branch never fails), for every allele length.
C2_SubstitutionLength ==
    (Resolved /\ vep.outcome # "NA") =>
        \A i \in 1..Len(vep.trace) :
            vep.trace[i].class = "substitution" =>
                Len(vep.trace[i].sequence) = sequence_length

\* C3: for a deletion variant (len(ref) > len(alt), '*' being the empty
\* allele) whose reference-centered window is in bounds, left flank + alt +
\* right flank has length exactly sequence_length (the assertion of the
\* deletion branch never fails).
C3_DeletionLength ==
    (Resolved /\ vep.outcome # "NA") =>
        \A i \in 1..Len(vep.trace) :
            vep.trace[i].class = "deletion" =>
                Len(vep.trace[i].sequence) = sequence_length

\* C4: for an insertion variant (len(ref) < len(alt)) whose
\* reference-centered window is in bounds, left flank + alt + right flank
\* has length exactly sequence_length (the assertion of the insertion
\* branch never fails), also next to the chromosome end and for alternate
\* alleles longer than the window.
C4_InsertionLength ==
    (Resolved /\ vep.outcome # "NA") =>
        \A i \in 1..Len(vep.trace) :
            vep.trace[i].class = "insertion" =>
                Len(vep.trace[i].sequence) = sequence_length

\* positions (1-based rows) at which two encodings of equal length differ
DiffRows(e1, e2) == {j \in 1..Len(e1) : e1[j] # e2[j]}

\* C5: for a substitution variant, every alternate window returned by
\* _process_alts equals the fetched reference-centered window at every
\* position outside the ref_len positions that start at offset
\* start_radius - floor(ref_len/2), and those positions hold exactly the
\* alternate allele; that offset is the window position of the 1-based
\* genome coordinate pos; for a one-base ref and alt the two windows differ
\* in at most one base, at that offset.
C5_SubstitutionSplice ==
    Windowed =>
        \A i \in 1..Len(vep.alt_encodings) :
            vep.trace[i].class = "substitution" =>
                LET ref_len == Len(variant.ref)
                    offset == start_radius - ref_len \div 2
                    alt_enc == vep.alt_encodings[i]
                    a == vep.trace[i].a
                IN  /\ Len(alt_enc) = Len(vep.fetched)
                    /\ offset >= 0
                    /\ offset + ref_len <= Len(alt_enc)
                    /\ \A j \in 1..Len(alt_enc) :
                          IF j > offset /\ j <= offset + ref_len
                          THEN alt_enc[j] = EncodeBase(a[j - offset])
                          ELSE alt_enc[j] = vep.fetched[j]
                    /\ vep.start + offset = variant.pos - 1
                    /\ ref_len = 1 =>
                          DiffRows(alt_enc, vep.fetched) \subseteq {offset + 1}

C5_Witness ==
    /\ Windowed
    /\ sequence_length = 4
    /\ variant.ref = <<"C">>
    /\ variant.alt = <<"A">>
    /\ vep.trace[1].class = "substitution"
    /\ DiffRows(vep.alt_encodings[1], vep.fetched) = {start_radius + 1}

\* C6: reference consistency check. If the ref-allele region of the fetched
\* window equals the encoded declared reference allele, the check returns
\* match = true and the window unchanged; if a base differs it returns
\* match = false and the window carries the declared allele in that region
\* (standard) or is the central slice of the declared allele (long); the
\* sequence reported is the one fetched from the genome. In every case the
\* ref-allele region of the returned window equals the declared allele.
C6_ReferenceCheck ==
    Windowed =>
        LET ref_len == Len(variant.ref)
            declared == sequence_to_encoding(variant.ref)
            offset == start_radius - ref_len \div 2
            lo == ref_len \div 2 - start_radius
            Region(w) == [j \in 1..ref_len |-> w[offset + j]]
            Central == [j \in 1..sequence_length |-> declared[lo + j]]
        IN  IF vep.regime = "standard"
            THEN /\ vep.match = (Region(vep.fetched) = declared)
                 /\ vep.match => vep.seq_encoding = vep.fetched
                 /\ Len(vep.seq_encoding) = sequence_length
                 /\ \A j \in 1..sequence_length :
                       (j <= offset \/ j > offset + ref_len) =>
                           vep.seq_encoding[j] = vep.fetched[j]
                 /\ Region(vep.seq_encoding) = declared
                 /\ vep.seq_at_ref =
                        [j \in 1..ref_len |-> DecodeRow(vep.fetched[offset + j])]
            ELSE /\ vep.match = (vep.fetched = Central)
                 /\ vep.match => vep.seq_encoding = vep.fetched
                 /\ vep.seq_encoding = Central
                 /\ vep.seq_at_ref =
                        [j \in 1..sequence_length |-> DecodeRow(vep.fetched[j])]

C6_Witness ==
    /\ Windowed
    /\ vep.regime = "standard"
    /\ ~vep.match
    /\ vep.outcome = "warning"
    /\ vep.seq_encoding # vep.fetched
    /\ vep.seq_at_ref # variant.ref

Enumerated == task = "ism" /\ pc = "done"

NoDuplicates(list) ==
    \A i, j \in 1..Len(list) : i # j => list[i] # list[j]

\* C7: for a sequence of length L whose symbols are all in the alphabet and
\* mutate_n_bases = 1, the enumerator returns exactly
\* L * (alphabet_size - 1) mutation sets, each a single (position, base)
\* pair with 0 <= position < L and base different from the base of the
\* sequence at that position, and no mutation set appears twice.
C7_SingleBaseEnumeration ==
    (/\ Enumerated
     /\ mutate_n_bases = 1
     /\ \A i \in 1..Len(ism_sequence) : ism_sequence[i] \in Bases) =>
        /\ Len(all_mutated_sequences) =
               Len(ism_sequence) * (AlphabetSize - 1)
        /\ \A m \in 1..Len(all_mutated_sequences) :
              LET set == all_mutated_sequences[m]
              IN  /\ Len(set) = 1
                  /\ set[1][1] \in 0..(Len(ism_sequence) - 1)
                  /\ set[1][2] \in Bases
                  /\ set[1][2] # ism_sequence[set[1][1] + 1]
        /\ NoDuplicates(all_mutated_sequences)

C7_Witness ==
    /\ Enumerated
    /\ mutate_n_bases = 1
    /\ ism_sequence = <<"A", "C", "T">>
    /\ Len(all_mutated_sequences) = 9

\* number of alternates of one site: every alphabet base but the one there
NumAlts(sequence, p) == Cardinality(Bases \ {sequence[p + 1]})

RECURSIVE ProductOfAlts(_, _)
ProductOfAlts(sequence, S) ==
    IF S = {} THEN 1
    ELSE LET p == CHOOSE x \in S : TRUE
         IN  NumAlts(sequence, p) * ProductOfAlts(sequence, S \ {p})

RECURSIVE SumOver(_, _)
SumOver(sequence, Sets) ==
    IF Sets = {} THEN 0
    ELSE LET S == CHOOSE x \in Sets : TRUE
         IN  ProductOfAlts(sequence, S) + SumOver(sequence, Sets \ {S})

\* number of ways to choose k sites and one alternate per chosen site
ExpectedCount(sequence, k) ==
    SumOver(sequence,
            {S \in SUBSET (0..(Len(sequence) - 1)) : Cardinality(S) = k})

\* lexicographic order on integer tuples of equal length
LexLess(x, y) ==
    \E i \in 1..Len(x) :
        /\ x[i] < y[i]
        /\ \A j \in 1..(i - 1) : x[j] = y[j]

\* sort key of a mutation set: its positions, then the alphabet indices
MutationKey(set) ==
    [j \in 1..Len(set) |-> set[j][1]]
        \o [j \in 1..Len(set) |-> BASE_TO_INDEX[set[j][2]]]

\* C8: for every sequence and every k the enumerator returns exactly the
\* sets of k (position, base) pairs with strictly ascending positions and,
\* per position, an alphabet base different from the symbol there (every
\* base where the symbol is unknown): none missing, none repeated, ordered
\* by position combination first and by the alternates in alphabet order
\* within one combination; the result is empty when k exceeds the length.
C8_Enumeration ==
    Enumerated =>
        LET L == Len(ism_sequence)
            k == mutate_n_bases
            out == all_mutated_sequences
        IN  /\ \A m \in 1..Len(out) :
                  /\ Len(out[m]) = k
                  /\ \A j \in 1..k :
                        /\ out[m][j][1] \in 0..(L - 1)
                        /\ out[m][j][2] \in Bases
                        /\ out[m][j][2] # ism_sequence[out[m][j][1] + 1]
                  /\ \A j \in 1..(k - 1) : out[m][j][1] < out[m][j + 1][1]
            /\ \A m \in 1..(Len(out) - 1) :
                  LexLess(MutationKey(out[m]), MutationKey(out[m + 1]))
            /\ NoDuplicates(out)
            /\ Len(out) = ExpectedCount(ism_sequence, k)
            /\ k > L => out = <<>>

C8_Witness ==
    /\ Enumerated
    /\ mutate_n_bases = 2
    /\ ism_sequence = <<"A", "N", "G">>
    /\ Len(all_mutated_sequences) = 33
    /\ all_mutated_sequences[1] = << <<0, "C">>, <<1, "A">> >>
    /\ all_mutated_sequences[2] = << <<0, "C">>, <<1, "C">> >>

\* a mutation set names no position twice
DistinctPositions(mutation_info) ==
    \A i, j \in 1..Len(mutation_info) :
        i # j => mutation_info[i][1] # mutation_info[j][1]

AllInAlphabet(mutation_info) ==
    \A i \in 1..Len(mutation_info) : mutation_info[i][2] \in DOMAIN BASE_TO_INDEX

MutateCall == task = "mutate" /\ pc = "ready" /\ pc' = "done"

\* C9: mutate_sequence round trip. For every encoding and every mutation
\* set over the alphabet, the returned encoding decodes to the original
\* symbol at every position that is not mutated and to the replacement base
\* at every mutated position, each mutated row holding exactly one 1; the
\* empty mutation set returns an encoding equal to the input; and the
\* caller's encoding is the same after the call as before it.
C9_MutateRoundTrip ==
    [][(/\ MutateCall
        /\ DistinctPositions(mutation_information)
        /\ AllInAlphabet(mutation_information)) =>
            /\ ~mutated'.raised
            /\ Len(mutated'.ret) = Len(encoding)
            /\ \A p \in 0..(Len(encoding) - 1) :
                  IF \E i \in 1..Len(mutation_information) :
                         mutation_information[i][1] = p
                  THEN \A i \in 1..Len(mutation_information) :
                          mutation_information[i][1] = p =>
                              /\ IsOneHotRow(mutated'.ret[p + 1])
                              /\ DecodeRow(mutated'.ret[p + 1]) =
                                     mutation_information[i][2]
                  ELSE /\ mutated'.ret[p + 1] = encoding[p + 1]
                       /\ DecodeRow(mutated'.ret[p + 1]) =
                              DecodeRow(encoding[p + 1])
            /\ mutation_information = <<>> => mutated'.ret = encoding
            /\ encoding' = encoding]_vars

C9_Witness ==
    /\ task = "mutate" /\ pc = "done"
    /\ ~mutated.raised
    /\ Len(mutation_information) = 2
    /\ DistinctPositions(mutation_information)
    /\ mutated.ret # encoding
    /\ \E p \in 1..Len(encoding) :
          /\ IsOneHotRow(encoding[p])
          /\ mutated.ret[p] # encoding[p]

\* C10: mutate_sequence fails when a mutation names a base that is not in
\* BASE_TO_INDEX; it then returns no encoding and the caller's encoding is
\* the same after the call as before it, also when earlier pairs of the
\* same mutation set were valid.
C10_MutateUnknownBase ==
    [][(MutateCall /\ ~AllInAlphabet(mutation_information)) =>
            /\ mutated'.raised
            /\ mutated'.ret = <<>>
            /\ encoding' = encoding]_vars

C10_Witness ==
    /\ task = "mutate" /\ pc = "done"
    /\ mutated.raised
    /\ Len(mutation_information) = 2
    /\ mutation_information[1][2] \in DOMAIN BASE_TO_INDEX
    /\ mutation_information[2][2] \notin DOMAIN BASE_TO_INDEX
    /\ DecodeRow(encoding[mutation_information[1][1] + 1]) #
           mutation_information[1][2]

ReportersBuilt == task = "reporters" /\ pc \in {"done", "ValueError"}

\* rank of a handler class in the fixed order diffs, abs_diffs, logits,
\* predictions
HandlerRank(handler) ==
    CASE handler = "DiffScoreHandler" -> 1
      [] handler = "AbsDiffScoreHandler" -> 2
      [] handler = "LogitScoreHandler" -> 3
      [] OTHER -> 4

\* C14: _initialize_reporters fails with a configuration error and creates
\* no handler when save_data holds none of diffs, abs_diffs, logits,
\* predictions; otherwise it returns exactly one handler per distinct
\* recognized kind (unrecognized and duplicate entries are ignored), in the
\* fixed order diffs, abs_diffs, logits, predictions, 'predictions' giving
\* the ref/alt-pair writer in mode varianteffect and the raw-predictions
\* writer in every other mode.
C14_ReporterSelection ==
    ReportersBuilt =>
        LET asked == {save_data[i] : i \in 1..Len(save_data)}
            Has(handler) ==
                \E i \in 1..Len(reporters) : reporters[i].handler = handler
        IN  /\ (asked \cap {"diffs", "abs_diffs", "logits", "predictions"} = {})
                   <=> (pc = "ValueError")
            /\ pc = "ValueError" => reporters = <<>>
            /\ pc = "done" =>
                  /\ Has("DiffScoreHandler") <=> ("diffs" \in asked)
                  /\ Has("AbsDiffScoreHandler") <=> ("abs_diffs" \in asked)
                  /\ Has("LogitScoreHandler") <=> ("logits" \in asked)
                  /\ Has("WriteRefAltHandler") <=>
                         ("predictions" \in asked /\ mode = "varianteffect")
                  /\ Has("WritePredictionsHandler") <=>
                         ("predictions" \in asked /\ mode # "varianteffect")
                  /\ \A i \in 1..(Len(reporters) - 1) :
                        HandlerRank(reporters[i].handler) <
                            HandlerRank(reporters[i + 1].handler)

C14_Witness ==
    /\ task = "reporters" /\ pc = "done"
    /\ mode = "varianteffect"
    /\ save_data = <<"predictions", "other", "diffs">>
    /\ Len(reporters) = 2
    /\ reporters[2].handler = "WriteRefAltHandler"

RECURSIVE SumBudgets(_, _)
SumBudgets(list, i) ==
    IF i > Len(list) THEN 0
    ELSE list[i].write_mem_limit + SumBudgets(list, i + 1)

\* C15: every handler built by _initialize_reporters gets the budget
\* write_mem_limit divided (integer division) by the number of handlers
\* actually created, so the budgets of the handlers sum to at most
\* write_mem_limit.
C15_HandlerBudget ==
    (task = "reporters" /\ pc = "done") =>
        /\ Len(reporters) >= 1
        /\ \A i \in 1..Len(reporters) :
              /\ reporters[i].write_mem_limit * Len(reporters) <= write_mem_limit
              /\ write_mem_limit <
                     (reporters[i].write_mem_limit + 1) * Len(reporters)
        /\ SumBudgets(reporters, 1) <= write_mem_limit

C15_Witness ==
    /\ task = "reporters" /\ pc = "done"
    /\ Len(save_data) = 3
    /\ Len(reporters) = 2
    /\ write_mem_limit = 5
    /\ reporters[1].write_mem_limit = 2

(* ------------------- claims on variant_effect_prediction --------------- *)
InVepLoop == task = "vep_run" /\ pc = "loop" /\ idx < Len(variants)

\* the window of the variant v is out of bounds or its chromosome is absent
WindowMissing(v) ==
    ~coords_in_bounds(NormalizeChrom(v.chrom),
                      RefCenter(v.pos, v.ref) - start_radius,
                      RefCenter(v.pos, v.ref) + end_radius)

\* the calls a step of the loop has added
NewCalls == SubSeq(calls', Len(calls) + 1, Len(calls'))

\* C11: in variant_effect_prediction a variant whose window is out of
\* bounds or whose chromosome is absent adds exactly one handle_NA call per
\* reporter, in reporter order, each carrying the identifier (chrom, pos,
\* name, ref, alt) of the variant; that iteration calls neither predict nor
\* handle_batch_predictions nor handle_warning, leaves the pending batch as
\* it was, and the loop goes on with the next variant.
C11_OutOfBoundsToNA ==
    [][(InVepLoop /\ WindowMissing(variants[idx + 1])) =>
         /\ Len(calls') = Len(calls) + Len(reporters)
         /\ SubSeq(calls', 1, Len(calls)) = calls
         /\ \A r \in 1..Len(reporters) :
               /\ NewCalls[r].op = "handle_NA"
               /\ NewCalls[r].reporter = r
               /\ NewCalls[r].ids =
                      << <<NormalizeChrom(variants[idx + 1].chrom),
                           variants[idx + 1].pos, variants[idx + 1].name,
                           variants[idx + 1].ref, variants[idx + 1].alt>> >>
         /\ pc' = "loop" /\ idx' = idx + 1
         /\ UNCHANGED <<batch_ref_seqs, batch_alt_seqs, batch_ids>>]_vars

\* a finished run with two reporters in which a variant without a window
\* was reported NA and a later variant was predicted
C11_Witness ==
    /\ task = "vep_run" /\ pc = "closed" /\ Len(reporters) = 2
    /\ \E i \in 1..Len(variants) :
          /\ WindowMissing(variants[i])
          /\ Cardinality({c \in DOMAIN calls :
                 calls[c].op = "handle_NA" /\ calls[c].vi = i}) = 2
          /\ \E c \in DOMAIN calls :
                calls[c].op = "predict" /\ calls[c].vi > i

\* the resolution of the variant the loop is about to process
Upcoming ==
    ResolveVariant(variants[idx + 1], start_radius, end_radius,
                   sequence_length)

\* the outcome of the variant a row identifier was made from (the names of
\* the pool are distinct)
OutcomeOfRow(id) ==
    ResolveVariant(CHOOSE v \in VepPool : v.name = id[3],
                   start_radius, end_radius, sequence_length).outcome

ReporterCalls(cs) ==
    {c \in DOMAIN cs : cs[c].op \in {"handle_batch_predictions",
                                     "handle_warning"}}

\* C12: in variant_effect_prediction every row a step hands to a reporter
\* through handle_warning belongs to a variant whose reference check failed
\* and every row handed through handle_batch_predictions to a variant whose
\* check passed; the rows of a variant whose reference
\* check failed reach every reporter through handle_warning only, in the
\* iteration of that variant, with one identifier per alternate and, where
\* the reporter takes them, the reference predictions of the window that
\* carries the declared allele; the rows of a variant whose check passed
\* reach the reporters through handle_batch_predictions only; a mismatch
\* keeps the loop running and leaves the pending normal batch as it was.
C12_MismatchToWarning ==
    [][/\ task = "vep_run" =>
            \A c \in ReporterCalls(NewCalls) :
               \A i \in DOMAIN NewCalls[c].ids :
                  OutcomeOfRow(NewCalls[c].ids[i]) =
                      IF NewCalls[c].op = "handle_warning" THEN "warning"
                      ELSE "match"
       /\ (InVepLoop /\ Upcoming.outcome = "warning") =>
               /\ pc' = "loop" /\ idx' = idx + 1
               /\ UNCHANGED <<batch_ref_seqs, batch_alt_seqs, batch_ids>>
               /\ Upcoming.seq_encoding # Upcoming.fetched
               /\ \A r \in 1..Len(reporters) : \E c \in DOMAIN NewCalls :
                     /\ NewCalls[c].op = "handle_warning"
                     /\ NewCalls[c].reporter = r
                     /\ NewCalls[c].ids =
                            RowIds(Upcoming.chrom, variants[idx + 1],
                                   Upcoming.all_alts)
                     /\ NewCalls[c].batch = Predict(Upcoming.alt_encodings)
                     /\ NewCalls[c].has_base =>
                            NewCalls[c].base =
                                [i \in DOMAIN Upcoming.all_alts |->
                                    PredictOne(Upcoming.seq_encoding)]
               /\ Cardinality(ReporterCalls(NewCalls)) = Len(reporters)
       /\ (InVepLoop /\ Upcoming.outcome = "match") =>
               /\ \A c \in ReporterCalls(NewCalls) :
                     NewCalls[c].op = "handle_batch_predictions"
               /\ batch_ids \o RowIds(Upcoming.chrom, variants[idx + 1],
                                      Upcoming.all_alts)
                    = IF ReporterCalls(NewCalls) = {} THEN batch_ids'
                      ELSE NewCalls[Len(NewCalls)].ids]_vars

\* a finished run in which a mismatching variant was reported through
\* handle_warning while rows of an earlier matching variant were pending,
\* and those rows were delivered afterwards by handle_batch_predictions
C12_Witness ==
    /\ task = "vep_run" /\ pc = "closed"
    /\ \E w, b \in DOMAIN calls :
          /\ calls[w].op = "handle_warning"
          /\ calls[w].has_base
          /\ calls[b].op = "handle_batch_predictions"
          /\ calls[b].vi > calls[w].vi
          /\ \E j \in 1..(calls[w].vi - 1) :
                \E i \in DOMAIN calls[b].ids :
                   calls[b].ids[i][3] = variants[j].name

\* the row identifiers of the j-th variant of the run
RowIdsOf(j) ==
    RowIds(NormalizeChrom(variants[j].chrom), variants[j],
           Split(variants[j].alt))

\* the rows (variant, alternate) equal to id that the run owes a reporter
RowsOwed(id) ==
    UNION {{<<j, i>> : i \in {k \in DOMAIN RowIdsOf(j) : RowIdsOf(j)[k] = id}}
           : j \in {k \in DOMAIN variants : ~WindowMissing(variants[k])}}

\* the rows equal to id that the reporter r has been handed
RowsDelivered(r, id) ==
    UNION {{<<c, i>> : i \in {k \in DOMAIN calls[c].ids :
                                 calls[c].ids[k] = id}}
           : c \in {k \in ReporterCalls(calls) : calls[k].reporter = r}}

AllRowIds == UNION {Range(RowIdsOf(j)) : j \in DOMAIN variants}

\* every row of an in-bounds variant reached every reporter once, every
\* delivery is aligned, and every reporter was closed once, at the end
RunComplete ==
    /\ \A r \in DOMAIN reporters : \A id \in AllRowIds :
          Cardinality(RowsDelivered(r, id)) = Cardinality(RowsOwed(id))
    /\ \A c \in ReporterCalls(calls) :
          /\ Len(calls[c].batch) = Len(calls[c].ids)
          /\ calls[c].has_base => Len(calls[c].base) = Len(calls[c].ids)
    /\ \A r \in DOMAIN reporters :
          /\ Cardinality({c \in DOMAIN calls :
                 calls[c].op = "write_to_file" /\ calls[c].reporter = r}) = 1
          /\ \A c \in DOMAIN calls :
                (calls[c].op = "write_to_file" /\ calls[c].reporter = r) =>
                    \A d \in ReporterCalls(calls) : d < c

VepEnded == task = "vep_run" /\ pc \in {"closed", "AssertionError"}

\* C13: when variant_effect_prediction has ended, every (variant,
\* alternate) pair of an in-bounds variant has been delivered to every
\* reporter exactly once, in deliveries whose rows and identifiers have the
\* same length, and every reporter has received write_to_file exactly
\* once, after the last delivery.
C13_EveryRowOnce == VepEnded => RunComplete

\* the same statement for the runs in which no alternate allele trips a
\* length assertion of the resolver
RunsWithoutAssertionComplete ==
    (task = "vep_run" /\ pc = "closed") => RunComplete

\* the window of the i-th alternate of the variant v, built from that
\* alternate alone
WindowOfAlt(v, i) ==
    sequence_to_encoding(
        ProcessAlt(Split(v.alt)[i], v.ref, NormalizeChrom(v.chrom), v.pos,
                   RefCenter(v.pos, v.ref), start_radius, end_radius,
                   sequence_length).sequence)

\* the window of the empty alternate of the variant v
WindowOfDeletion(v) ==
    sequence_to_encoding(
        ProcessAlt(<<>>, v.ref, NormalizeChrom(v.chrom), v.pos,
                   RefCenter(v.pos, v.ref), start_radius, end_radius,
                   sequence_length).sequence)

\* the iteration for the variant v has produced one window per alternate,
\* in order, and has paired the i-th window with (chrom, pos, name, ref,
\* i-th alternate) and with one reference window, in the delivery it made
\* or in the pending batch
AlternatesPaired(v) ==
    LET n == Len(Split(v.alt))
        windows == [i \in 1..n |-> WindowOfAlt(v, i)]
        ids == [i \in 1..n |->
                   <<NormalizeChrom(v.chrom), v.pos, v.name, v.ref,
                     Split(v.alt)[i]>>]
        delivered == NewCalls # <<>>
        warned == vep'.outcome = "warning"
    IN  /\ vep'.alt_encodings = windows
        /\ \A i \in 1..n :
              Split(v.alt)[i] = <<"*">> => windows[i] = WindowOfDeletion(v)
        /\ (IF delivered THEN NewCalls[1].batch ELSE batch_ref_seqs')
              = (IF warned THEN <<>> ELSE batch_ref_seqs)
                   \o [i \in 1..n |-> vep'.seq_encoding]
        /\ (IF delivered THEN NewCalls[2].batch ELSE batch_alt_seqs')
              = (IF warned THEN <<>> ELSE batch_alt_seqs) \o windows
        /\ (IF delivered THEN NewCalls[3].ids ELSE batch_ids')
              = (IF warned THEN <<>> ELSE batch_ids) \o ids
        /\ delivered => \A c \in ReporterCalls(NewCalls) :
              /\ NewCalls[c].ids = NewCalls[3].ids
              /\ NewCalls[c].batch = Predict(NewCalls[2].batch)
              /\ NewCalls[c].base = Predict(NewCalls[1].batch)

MultiAllelic(v) == Len(Split(v.alt)) >= 2

\* C16: for an in-bounds variant with n >= 2 comma-separated alternates,
\* _process_alts returns n encoded windows, the i-th built from the i-th
\* alternate alone ("*" as the empty allele), and the iteration of
\* variant_effect_prediction pairs the i-th window with the identifier
\* (chrom, pos, name, ref, i-th alternate) and with the same reference
\* window for all n rows.
C16_MultiAllelicRows ==
    [][(InVepLoop /\ ~WindowMissing(variants[idx + 1])
           /\ MultiAllelic(variants[idx + 1]))
         => AlternatesPaired(variants[idx + 1])]_vars

\* the same statement for the variants none of whose alternates trips a
\* length assertion of the resolver
MultiAllelicRowsWithoutAssertion ==
    [][(InVepLoop /\ ~WindowMissing(variants[idx + 1])
           /\ MultiAllelic(variants[idx + 1])
           /\ Upcoming.outcome # "AssertionError")
         => AlternatesPaired(variants[idx + 1])]_vars

\* C18: in variant_effect_prediction every call of predict, for the normal
\* stream and for the warning stream, receives at most batch_size
\* encodings.
C18_BatchSizeRespected ==
    task = "vep_run" =>
        \A c \in DOMAIN calls :
            calls[c].op = "predict" => Len(calls[c].batch) <= batch_size

(* ----------------- claims on the in-silico mutagenesis drivers --------- *)
\* the mutation sets handed to in_silico_mutagenesis_predict all hold
\* exactly mutate_n_bases (position, base) pairs
SetsHoldKPairs ==
    \A m \in DOMAIN all_mutated_sequences :
        Len(all_mutated_sequences[m]) = mutate_n_bases

\* C17: in_silico_mutagenesis called with mutate_n_bases = k hands
\* in_silico_mutagenesis_predict mutation sets of exactly k (position,
\* base) pairs each, the sets in_silico_mutagenesis_from_file enumerates
\* for the same sequence and the same k.
C17_SingleHonoursK ==
    (task = "ism_single" /\ pc = "closed") =>
        /\ SetsHoldKPairs
        /\ all_mutated_sequences =
               FileMutations(FitSequence(ism_sequence, sequence_length),
                             mutate_n_bases)

\* in_silico_mutagenesis_from_file hands over sets of exactly k pairs
FileHonoursK == (task = "ism_file" /\ idx > 0) => SetsHoldKPairs

(* ------------------ claims on get_predictions_for_fasta_file ----------- *)
Deliveries == {c \in DOMAIN calls : calls[c].op = "handle_batch_predictions"}

\* the prediction rows handed to the reporter that were computed from the
\* record with index i
RowsOfRecord(i) ==
    UNION {{<<c, j>> : j \in {k \in DOMAIN calls[c].batch :
                                 calls[c].batch[k][2].rec = i}}
           : c \in Deliveries}

RowsHanded ==
    UNION {{<<c, j>> : j \in DOMAIN calls[c].batch} : c \in Deliveries}

\* C19: when get_predictions_for_fasta_file has closed the reporter of a
\* file of n >= 1 records, the reporter has been handed n prediction rows,
\* one for every record of the file.
C19_EveryRecordPredicted ==
    (task = "fasta" /\ pc = "closed") =>
        /\ Cardinality(RowsHanded) = Len(fasta_file)
        /\ \A i \in 0..(Len(fasta_file) - 1) :
              Cardinality(RowsOfRecord(i)) = 1

\* what the code does hand over: no record twice, and every record except
\* the last one when the last index is a multiple of batch_size
RecordsPredictedButLast ==
    (task = "fasta" /\ pc = "closed") =>
        \A i \in 0..(Len(fasta_file) - 1) :
            Cardinality(RowsOfRecord(i)) =
                IF i = Len(fasta_file) - 1 /\ i % batch_size = 0 THEN 0 ELSE 1

\* C20: in get_predictions_for_fasta_file every handle_batch_predictions
\* call passes as many identifiers as prediction rows, the j-th identifier
\* being [index, name] of the record whose encoding produced the j-th row,
\* and no identifier is passed in more than one call.
C20_IdentifiersAligned ==
    task = "fasta" =>
        /\ \A c \in Deliveries :
              /\ Len(calls[c].ids) = Len(calls[c].batch)
              /\ \A j \in DOMAIN calls[c].ids :
                    /\ j \in DOMAIN calls[c].batch
                    /\ calls[c].ids[j][1] = calls[c].batch[j][2].rec
                    /\ calls[c].ids[j][2] =
                           fasta_file[calls[c].ids[j][1] + 1].name
        /\ \A c, d \in Deliveries :
              c # d => Range(calls[c].ids) \cap Range(calls[d].ids) = {}

(* --------------- claims on in_silico_mutagenesis_predict --------------- *)
\* a driver has returned from in_silico_mutagenesis_predict at least once
IsmPredicted ==
    \/ task = "ism_single" /\ pc = "closed"
    \/ task = "ism_file" /\ idx > 0

\* the calls of the last run of in_silico_mutagenesis_predict: the calls of
\* the last sequence after the prediction of the unmutated sequence and
\* the row that hands it to the predictions reporter
LastSequenceCalls ==
    SelectSeq(calls, LAMBDA c : c.vi = IF task = "ism_single" THEN 1 ELSE idx)

IsmPredictCalls ==
    SubSeq(LastSequenceCalls,
           IF "predictions" \in Range(save_data) THEN 3 ELSE 2,
           Len(LastSequenceCalls))

\* the mutation set applied to the unmodified encoding enc: the rows at
\* its positions are the rows of its bases, every other row is kept
AppliedToBase(enc, mutation_info) ==
    [p \in 1..Len(enc) |->
        IF \E q \in DOMAIN mutation_info : mutation_info[q][1] = p - 1
        THEN EncodeBase(mutation_info[
                 CHOOSE q \in DOMAIN mutation_info :
                     mutation_info[q][1] = p - 1][2])
        ELSE enc[p]]

\* (positions, original bases, replacement bases) of one mutation set
OwnIdentifier(sequence, mutation_info) ==
    <<[q \in DOMAIN mutation_info |-> mutation_info[q][1]],
      [q \in DOMAIN mutation_info |-> sequence[mutation_info[q][1] + 1]],
      [q \in DOMAIN mutation_info |-> mutation_info[q][2]]>>

NumBatches == (Len(all_mutated_sequences) + batch_size - 1) \div batch_size

\* the mutation sets of the t-th batch (t from 0), in list order
BatchOf(t) ==
    SubSeq(all_mutated_sequences, t * batch_size + 1,
           Min((t + 1) * batch_size, Len(all_mutated_sequences)))

\* C21: in_silico_mutagenesis_predict makes, for the consecutive batches
\* of at most batch_size mutation sets in list order, one predict call on
\* the sets of the batch applied to the unmodified base encoding, followed
\* by one handle_batch_predictions call per reporter with the predictions
\* and the identifiers (positions, original bases, replacement bases) of
\* those sets, with the base prediction for the reporters that need it;
\* then one write_to_file call per reporter, and nothing else, also when
\* the list is empty.
C21_IsmBatches ==
    IsmPredicted =>
        LET R == Len(reporters)
            sequence == FitSequence(ism_sequence, sequence_length)
            enc == sequence_to_encoding(sequence)
            cs == IsmPredictCalls
        IN  /\ Len(cs) = NumBatches * (1 + R) + R
            /\ \A t \in 0..(NumBatches - 1) :
                  LET p == cs[t * (1 + R) + 1]
                      rows == [m \in DOMAIN BatchOf(t) |->
                                  AppliedToBase(enc, BatchOf(t)[m])]
                  IN  /\ p.op = "predict"
                      /\ Len(p.batch) \in 1..batch_size
                      /\ p.batch = rows
                      /\ \A r \in 1..R :
                            LET h == cs[t * (1 + R) + 1 + r]
                            IN  /\ h.op = "handle_batch_predictions"
                                /\ h.reporter = r
                                /\ h.batch = Predict(rows)
                                /\ h.ids = [m \in DOMAIN BatchOf(t) |->
                                               OwnIdentifier(sequence,
                                                             BatchOf(t)[m])]
                                /\ h.has_base =
                                       needs_base_pred(reporters[r].handler)
                                /\ h.has_base => h.base = Predict(<<enc>>)
            /\ \A r \in 1..R :
                  /\ cs[NumBatches * (1 + R) + r].op = "write_to_file"
                  /\ cs[NumBatches * (1 + R) + r].reporter = r

\* a run with two reporters, one of which takes the base prediction, and
\* at least two batches, the last one partial
C21_Witness ==
    /\ IsmPredicted
    /\ Len(reporters) = 2
    /\ NumBatches >= 2
    /\ Len(all_mutated_sequences) % batch_size # 0
    /\ \E c \in DOMAIN IsmPredictCalls :
          IsmPredictCalls[c].op = "handle_batch_predictions"
              /\ ~IsmPredictCalls[c].has_base

\* a run of in_silico_mutagenesis_predict on an empty list of mutation sets
IsmEmptyListClosed ==
    /\ IsmPredicted /\ all_mutated_sequences = <<>>
    /\ \E c \in DOMAIN IsmPredictCalls :
          IsmPredictCalls[c].op = "write_to_file"

(* -------------- claims on the regimes of the reference check ----------- *)
\* the encoding of the genome at the 0-based positions [lo, hi) of the
\* chromosome of the variant
GenomeRows(lo, hi) == get_encoding_from_coords(vep.chrom, lo, hi)

\* C22: the reference check of a windowed variant uses the standard regime
\* exactly when len(ref) < sequence_length. In the standard regime the
\* compared sub-window [start_radius - floor(ref_len/2), + ref_len) lies
\* inside the window and holds the genome at the positions of the
\* reference allele, which start at the 1-based pos. In the long regime
\* the slice [floor(ref_len/2) - start_radius, floor(ref_len/2) +
\* end_radius) of the allele lies inside the allele, has sequence_length
\* rows, and its row i stands for the genome position of row i of the
\* fetched window.
C22_RegimeAlignment ==
    Windowed =>
        LET ref_len == Len(variant.ref)
            declared == sequence_to_encoding(variant.ref)
            first == variant.pos - 1
            offset == start_radius - ref_len \div 2
            lo == ref_len \div 2 - start_radius
            hi == ref_len \div 2 + end_radius
        IN  /\ (vep.regime = "standard") = (ref_len < sequence_length)
            /\ vep.regime \in {"standard", "long"}
            /\ Len(vep.fetched) = sequence_length
            /\ vep.fetched = GenomeRows(vep.start, vep.end)
            /\ vep.regime = "standard" =>
                  /\ offset >= 0
                  /\ offset + ref_len <= sequence_length
                  /\ vep.start + offset = first
                  /\ [j \in 1..ref_len |-> vep.fetched[offset + j]]
                         = GenomeRows(first, first + ref_len)
                  /\ vep.seq_at_ref =
                         encoding_to_sequence(
                             GenomeRows(first, first + ref_len))
                  /\ vep.match =
                         (GenomeRows(first, first + ref_len) = declared)
            /\ vep.regime = "long" =>
                  /\ lo >= 0
                  /\ hi <= ref_len
                  /\ hi - lo = sequence_length
                  /\ first + lo = vep.start
                  /\ vep.match =
                         \A i \in 1..sequence_length :
                            declared[lo + i] =
                                GenomeRows(first + lo + i - 1,
                                           first + lo + i)[1]
                  /\ ~vep.match =>
                         vep.seq_encoding =
                             [i \in 1..sequence_length |-> declared[lo + i]]

\* a matching variant in the long regime whose allele is longer than the
\* window, so that the slice starts inside the allele
C22_Witness ==
    /\ Windowed
    /\ vep.regime = "long"
    /\ Len(variant.ref) > sequence_length
    /\ Len(variant.ref) \div 2 - start_radius > 0
    /\ vep.match

\* a mismatching variant in the standard regime whose allele starts and
\* ends inside the window
StandardRegimeInside ==
    /\ Windowed
    /\ vep.regime = "standard"
    /\ start_radius - Len(variant.ref) \div 2 > 0
    /\ Len(variant.ref) >= 2
    /\ ~vep.match

====
